---- MODULE Spec2Model ----
(***************************************************************************)
(* A model of chunkgpt's Chunker (src/src/chunkgpt/chunkgpt.py): the       *)
(* constructor's validation, the token-window chunker, the retrying        *)
(* completion call and the recursive summarize reduction.                  *)
(*                                                                         *)
(* Text is a sequence of characters over {"x", "n"} ("n" is a line break). *)
(* The tokenizer (tiktoken, an external library) is modelled by a small    *)
(* vocabulary with one merge: two adjacent line breaks form the single     *)
(* token "nn".  The system message enters the code only through its token  *)
(* count, so it is carried as that count.  The completion client is the    *)
(* environment: each attempt either raises or returns a content and a      *)
(* usage figure.  Cost is kept in units of 1e-5 cents so it stays integer. *)
(***************************************************************************)
EXTENDS Integers, Sequences, FiniteSets, TLC

\* self       the Chunker's fields (lines 133-147)
\* ctor       the constructor call: its arguments and how it ended
\* stack      the activations of summarize, innermost last: locals and position
\* comp       the current (or last) _get_completion call
\*            (spent_before: an earlier call used all its retries)
\* ret        what the outermost summarize returned
\* err        the exception that ended summarize, "none" if none
\* log        the successful completion requests so far, in order
\* requested  whether any completion request was sent
\* chunk_ret  what a direct call of _chunk returned
VARIABLES self, ctor, stack, comp, ret, err, log, requested, chunk_ret

vars == <<self, ctor, stack, comp, ret, err, log, requested, chunk_ret>>

(* ------------------------------ bounds -------------------------------- *)

\* largest max_chunk_length / chunk_overlap / summary_length tried by Spec
MaxChunk == 2
MaxSummary == 2
\* longest input text (characters) handed to summarize by Spec
MaxTextLen == 2
\* deepest recursive summarize explored (0 = the top-level call only)
MaxDepth == 1
\* longest combined text for which the recursive call is explored
MaxRecLen == 4
\* largest max_chunk_length and longest text tried by SpecChunk
MaxBigChunk == 10
MaxBigLen == 25

(* ----------------------------- tokenizer ------------------------------ *)

Min(a, b) == IF a < b THEN a ELSE b

Slice_short(seq, start, end) == SubSeq(seq, start + 1, Min(end - 1, Len(seq)))

Slice_long(seq, start, end) == SubSeq(seq, start + 1, Min(end + 1, Len(seq)))

\* tokens[start:end] of Python, 0-based, end clamped to the length
Slice(seq, start, end) == SubSeq(seq, start + 1, Min(end, Len(seq)))

RECURSIVE _tokenize(_)
_tokenize(text) ==
  IF text = <<>> THEN <<>>
  ELSE IF Len(text) >= 2 /\ text[1] = "n" /\ text[2] = "n"
       THEN <<"nn">> \o _tokenize(SubSeq(text, 3, Len(text)))
       ELSE <<text[1]>> \o _tokenize(Tail(text))

RECURSIVE _decode(_)
_decode(tokens) ==
  IF tokens = <<>> THEN <<>>
  ELSE (IF tokens[1] = "nn" THEN <<"n", "n">> ELSE <<tokens[1]>>) \o _decode(Tail(tokens))

\* USER_MSG.format(text): "\nTEXT EXCERPT:\n{}\n\nSUMMARY:\n"
USER_MSG(text) == <<"n", "T", "n">> \o text \o <<"n", "n", "S", "n">>

(* ------------------------- model profile ------------------------------ *)

\* model.startswith(prefix) for the model names used here
StartsWith(model, prefix) ==
  \/ model = prefix
  \/ model = "gpt-4-32k" /\ prefix = "gpt-4"
  \/ model = "gpt-3.5-turbo-16k" /\ prefix = "gpt-3.5-turbo"

_get_token_limit(model) ==
  IF StartsWith(model, "gpt-3.5-turbo-16k") THEN 16384
  ELSE IF StartsWith(model, "gpt-4-32k") THEN 32768
  ELSE IF StartsWith(model, "gpt-4") THEN 8192
  ELSE 4096

\* price in units of 1e-5 cents per token
_get_price_per_token(model) ==
  IF StartsWith(model, "gpt-3.5-turbo-16k") THEN 30
  ELSE IF StartsWith(model, "gpt-4-32k") THEN 600
  ELSE IF StartsWith(model, "gpt-4") THEN 300
  ELSE 15

_get_complete_token_count(s, text) ==
  s.system_msg_cnt + Len(_tokenize(USER_MSG(text))) + s.summary_length

_get_base_token_count(s) ==
  s.system_msg_cnt + Len(_tokenize(USER_MSG(<<>>)))

(* ----------------------------- constructor ---------------------------- *)

NoSelf ==
  [model |-> "", max_chunk_length |-> 0, chunk_overlap |-> 0, summary_length |-> 0,
   system_msg_cnt |-> 0, token_limit |-> 0, price_per_token |-> 0]

Rejected(what, by) == [status |-> "rejected", error |-> what, exceeded_by |-> by, self |-> NoSelf]

OverlapTooLarge(chunk_overlap, max_chunk_length) == chunk_overlap > max_chunk_length

BudgetExceeded_lenient(allowed_tokens, token_limit) == allowed_tokens > token_limit + 1

BudgetExceeded_atlimit(allowed_tokens, token_limit) == allowed_tokens >= token_limit

BudgetExceeded(allowed_tokens, token_limit) == allowed_tokens > token_limit

__init__(a) ==
  IF a.max_chunk_length <= 0 THEN Rejected("max_chunk_length", 0)
  ELSE IF a.chunk_overlap < 0 THEN Rejected("chunk_overlap", 0)
  ELSE IF OverlapTooLarge(a.chunk_overlap, a.max_chunk_length) THEN Rejected("chunk_overlap", 0)
  ELSE IF a.summary_length <= 0 THEN Rejected("summary_length", 0)
  ELSE LET s == [model |-> a.model,
                 max_chunk_length |-> a.max_chunk_length,
                 chunk_overlap |-> a.chunk_overlap,
                 summary_length |-> a.summary_length,
                 system_msg_cnt |-> a.system_msg_cnt,
                 token_limit |-> _get_token_limit(a.model),
                 price_per_token |-> _get_price_per_token(a.model)]
           allowed_tokens == _get_base_token_count(s) + a.summary_length + a.max_chunk_length
       IN IF BudgetExceeded(allowed_tokens, s.token_limit)
          THEN [status |-> "rejected", error |-> "token_limit",
                exceeded_by |-> allowed_tokens - s.token_limit, self |-> s]
          ELSE [status |-> "ok", error |-> "none", exceeded_by |-> 0, self |-> s]

(* ------------------------------- _chunk ------------------------------- *)

RECURSIVE range_inclusive(_, _, _)
range_inclusive(start, stop, step) ==
  IF (step > 0 /\ start <= stop) \/ (step < 0 /\ start >= stop)
  THEN <<start>> \o range_inclusive(start + step, stop, step)
  ELSE <<>>

\* list(range(start, stop, step)) for step # 0
RECURSIVE range(_, _, _)
range(start, stop, step) ==
  IF (step > 0 /\ start < stop) \/ (step < 0 /\ start > stop)
  THEN <<start>> \o range(start + step, stop, step)
  ELSE <<>>

Fits_atlimit(total_cnt, token_limit) == total_cnt <= token_limit

Fits(total_cnt, token_limit) == total_cnt < token_limit

ChunkStep_nooverlap(s) == s.max_chunk_length

\* line 246: chunk_step
ChunkStep(s) == s.max_chunk_length - s.chunk_overlap

\* path: "single" (line 241) or "window" (lines 243-253); error "ValueError" is
\* range() refusing a zero step; ranges are the token windows actually sliced.
_chunk(s, text) ==
  LET total_cnt == _get_complete_token_count(s, text) IN
  IF Fits(total_cnt, s.token_limit)
  THEN [path |-> "single", error |-> "none", ntokens |-> 0, ranges |-> <<>>, chunks |-> <<text>>]
  ELSE LET tokens == _tokenize(text)
           chunk_step == ChunkStep(s)
       IN IF chunk_step = 0
          THEN [path |-> "window", error |-> "ValueError", ntokens |-> Len(tokens),
                ranges |-> <<>>, chunks |-> <<>>]
          ELSE LET starts == range(0, Len(tokens), chunk_step)
                   end(k) == starts[k] + s.max_chunk_length
               IN [path |-> "window", error |-> "none", ntokens |-> Len(tokens),
                   ranges |-> [k \in 1..Len(starts) |->
                                 <<starts[k], starts[k] + Len(Slice(tokens, starts[k], end(k)))>>],
                   chunks |-> [k \in 1..Len(starts) |->
                                 _decode(Slice(tokens, starts[k], end(k)))]]

(* ------------------------------- inputs ------------------------------- *)

Seqs(S, n) == UNION {[1..k -> S] : k \in 0..n}

Models == {"gpt-3.5-turbo"}

\* constructor arguments; the system message is sized so that the budget
\* check of lines 149-152 is passed, met exactly, and failed
Args ==
  {[model |-> mo, max_chunk_length |-> m, chunk_overlap |-> o, summary_length |-> sl,
    system_msg_cnt |-> _get_token_limit(mo) - d] :
      mo \in Models, m \in 0..MaxChunk, o \in (-1)..MaxChunk, sl \in 0..MaxSummary,
      d \in 8..(MaxChunk + 7)}

Texts == Seqs({"x", "n"}, MaxTextLen)

FinalSteps == {"summarize", "combine", "other"}

\* what one successful ChatCompletion.create returns: the content (at most
\* max_tokens = summary_length tokens) and usage.total_tokens
Completions == {[content |-> <<>>, total_tokens |-> 1], [content |-> <<"x">>, total_tokens |-> 2]}
Responses(s) == {r \in Completions : Len(_tokenize(r.content)) <= s.summary_length}

BigArgs ==
  {[model |-> mo, max_chunk_length |-> m, chunk_overlap |-> o, summary_length |-> 1,
    system_msg_cnt |-> _get_token_limit(mo) - (m + d)] :
      mo \in Models, m \in 0..MaxBigChunk, o \in (-1)..(MaxBigChunk + 1), d \in 6..8}

LongText(k) == [i \in 1..k |-> IF i % 4 = 0 THEN "n" ELSE "x"]

BigTexts == Texts \cup {LongText(k) : k \in 0..MaxBigLen}

(* ------------------------------- state -------------------------------- *)

DefaultRetries == 3

NoChunkRet ==
  [called |-> FALSE, text |-> <<>>, path |-> "none", error |-> "none", ntokens |-> 0,
   ranges |-> <<>>, chunks |-> <<>>]

NoSummary ==
  [original |-> <<>>, result |-> <<>>, chunks |-> <<>>, intermediate_steps |-> <<>>,
   total_tokens |-> 0, cost |-> 0]

\* attempts and fails count the requests made and failed inside one call
NoComp ==
  [active |-> FALSE, text |-> <<>>, num_retries |-> 0, attempts |-> 0, fails |-> 0,
   outcome |-> "none", spent_before |-> FALSE]

Init ==
  /\ self = NoSelf
  /\ ctor = [status |-> "new", error |-> "none", exceeded_by |-> 0, args |-> NoSelf]
  /\ stack = <<>>
  /\ comp = NoComp
  /\ ret = [returned |-> FALSE, final_step |-> "none", summary |-> NoSummary]
  /\ err = "none"
  /\ log = <<>>
  /\ requested = FALSE
  /\ chunk_ret = NoChunkRet

Step(kind, a, b) == [kind |-> kind, a |-> a, b |-> b]

Top == stack[Len(stack)]

SetTop(f) == [stack EXCEPT ![Len(stack)] = f]

\* lines 164-179 of summarize: a new frame over the chunks of text
Frame(text, final_step, chunks) ==
  [text |-> text, final_step |-> final_step, chunks |-> chunks, i |-> 0,
   combined_summaries |-> <<>>, pc |-> "loop",
   summary |-> [NoSummary EXCEPT !.original = text]]

Call_carried(text) ==
  [active |-> TRUE, text |-> text,
   num_retries |-> IF comp.outcome = "none" THEN DefaultRetries ELSE comp.num_retries,
   attempts |-> 0, fails |-> 0, outcome |-> "pending",
   spent_before |-> comp.spent_before \/ comp.fails = DefaultRetries]

\* _get_completion(text): the call as made by summarize, num_retries defaulted;
\* spent_before records that an earlier call of the run used all its retries
Call(text) ==
  [active |-> TRUE, text |-> text, num_retries |-> DefaultRetries, attempts |-> 0,
   fails |-> 0, outcome |-> "pending",
   spent_before |-> comp.spent_before \/ comp.fails = DefaultRetries]

(* ------------------------------ actions ------------------------------- *)

\* Chunker(...): lines 106-152
Construct(a) ==
  /\ ctor.status = "new"
  /\ LET r == __init__(a) IN
       /\ ctor' = [status |-> r.status, error |-> r.error, exceeded_by |-> r.exceeded_by,
                   args |-> [NoSelf EXCEPT !.model = a.model,
                                           !.max_chunk_length = a.max_chunk_length,
                                           !.chunk_overlap = a.chunk_overlap,
                                           !.summary_length = a.summary_length,
                                           !.system_msg_cnt = a.system_msg_cnt]]
       /\ self' = IF r.status = "ok" THEN r.self ELSE NoSelf
  /\ UNCHANGED <<stack, comp, ret, err, log, requested, chunk_ret>>

\* a direct call of _chunk(text) on a constructed Chunker
ChunkCall(text) ==
  /\ ctor.status = "ok"
  /\ ~chunk_ret.called
  /\ LET c == _chunk(self, text) IN
       chunk_ret' = [called |-> TRUE, text |-> text, path |-> c.path, error |-> c.error,
                     ntokens |-> c.ntokens, ranges |-> c.ranges, chunks |-> c.chunks]
  /\ UNCHANGED <<self, ctor, stack, comp, ret, err, log, requested>>

\* summarize(text, final_step), lines 164-179, called from outside
Summarize(text, final_step) ==
  /\ ctor.status = "ok"
  /\ stack = <<>> /\ err = "none" /\ ~ret.returned
  /\ LET c == _chunk(self, text) IN
       IF c.error # "none"
       THEN /\ err' = "range_zero_step"
            /\ stack' = stack
       ELSE /\ stack' = <<Frame(text, final_step, c.chunks)>>
            /\ err' = err
  /\ UNCHANGED <<self, ctor, comp, ret, log, requested, chunk_ret>>

\* line 183: the loop calls _get_completion(chunk)
CallCompletion ==
  /\ stack # <<>>
  /\ Top.pc = "loop"
  /\ Top.i < Len(Top.chunks)
  /\ comp' = Call(Top.chunks[Top.i + 1])
  /\ stack' = SetTop([Top EXCEPT !.pc = "await"])
  /\ UNCHANGED <<self, ctor, ret, err, log, requested, chunk_ret>>

RetryLeft_oncemore(num_retries) == num_retries >= 0

\* line 338
RetryLeft(num_retries) == num_retries > 0

Unwind_skipchunk(st) ==
  [st EXCEPT ![Len(st)] =
     IF st[Len(st)].pc = "await"
     THEN [st[Len(st)] EXCEPT !.i = @ + 1, !.pc = "loop"]
     ELSE [st[Len(st)] EXCEPT !.pc = "return"]]

\* line 344 seen from summarize: nothing at lines 183, 209, 219 catches the
\* exception, so it leaves every activation of summarize
Unwind(st) == <<>>

\* lines 329-344: the client raises; retry or give up
CompletionFails ==
  /\ comp.active
  /\ requested' = TRUE
  /\ IF RetryLeft(comp.num_retries)
     THEN /\ comp' = [comp EXCEPT !.num_retries = @ - 1, !.attempts = @ + 1, !.fails = @ + 1]
          /\ UNCHANGED <<stack, err>>
     ELSE /\ comp' = [comp EXCEPT !.attempts = @ + 1, !.fails = @ + 1, !.active = FALSE,
                                  !.outcome = "raised"]
          /\ err' = "unable_to_return_completion"
          /\ stack' = Unwind(stack)
  /\ UNCHANGED <<self, ctor, ret, log, chunk_ret>>

AfterChunk_nobreak(f, r) ==
  [f EXCEPT !.combined_summaries = @ \o r.content,
            !.summary.chunks = (f.i + 1 :> [input |-> f.chunks[f.i + 1], output |-> r.content]) @@ @,
            !.summary.total_tokens = @ + r.total_tokens,
            !.summary.cost = @ + r.total_tokens * self.price_per_token,
            !.summary.intermediate_steps = Append(@, Step("chunk", f.i + 1, 0)),
            !.i = @ + 1,
            !.pc = "loop"]

AfterChunk_zerobased(f, r) ==
  [f EXCEPT !.combined_summaries = @ \o r.content \o <<"n">>,
            !.summary.chunks = (f.i :> [input |-> f.chunks[f.i + 1], output |-> r.content]) @@ @,
            !.summary.total_tokens = @ + r.total_tokens,
            !.summary.cost = @ + r.total_tokens * self.price_per_token,
            !.summary.intermediate_steps = Append(@, Step("chunk", f.i, 0)),
            !.i = @ + 1,
            !.pc = "loop"]

\* lines 184-195: the loop body after the completion of chunk i+1; the
\* chunks dict is a function from the keys i+1 to the input/output pairs
AfterChunk(f, r) ==
  [f EXCEPT !.combined_summaries = @ \o r.content \o <<"n">>,
            !.summary.chunks = (f.i + 1 :> [input |-> f.chunks[f.i + 1], output |-> r.content]) @@ @,
            !.summary.total_tokens = @ + r.total_tokens,
            !.summary.cost = @ + r.total_tokens * self.price_per_token,
            !.summary.intermediate_steps = Append(@, Step("chunk", f.i + 1, 0)),
            !.i = @ + 1,
            !.pc = "loop"]

AfterFinal_keepscombined(f, r) ==
  [f EXCEPT !.summary.result = f.combined_summaries,
            !.summary.total_tokens = @ + r.total_tokens,
            !.summary.cost = @ + r.total_tokens * self.price_per_token,
            !.summary.intermediate_steps = Append(@, Step("final", 0, 0)),
            !.pc = "return"]

\* lines 220-227: after the completion over the combined summaries
AfterFinal(f, r) ==
  [f EXCEPT !.summary.result = r.content,
            !.summary.total_tokens = @ + r.total_tokens,
            !.summary.cost = @ + r.total_tokens * self.price_per_token,
            !.summary.intermediate_steps = Append(@, Step("final", 0, 0)),
            !.pc = "return"]

\* lines 330-335, 345: the client answers; the caller goes on
CompletionSucceeds(r) ==
  /\ comp.active
  /\ requested' = TRUE
  /\ comp' = [comp EXCEPT !.attempts = @ + 1, !.active = FALSE, !.outcome = "ok"]
  /\ log' = Append(log, [payload |-> comp.text, content |-> r.content,
                         total_tokens |-> r.total_tokens, depth |-> Len(stack) - 1,
                         for |-> IF Top.pc = "await" THEN "chunk" ELSE "final"])
  /\ stack' = SetTop(IF Top.pc = "await" THEN AfterChunk(Top, r) ELSE AfterFinal(Top, r))
  /\ UNCHANGED <<self, ctor, ret, err, chunk_ret>>

NeedsReduction_above(combined_token_cnt, token_limit) == combined_token_cnt > token_limit

\* line 208: the combined summaries do not fit one request
NeedsReduction(combined_token_cnt, token_limit) == combined_token_cnt >= token_limit

\* lines 198-229: the decision once every chunk has its completion
FinalStep ==
  /\ stack # <<>>
  /\ Top.pc = "loop"
  /\ Top.i = Len(Top.chunks)
  /\ LET combined_token_cnt == _get_complete_token_count(self, Top.combined_summaries) IN
       IF Top.final_step = "combine"
       THEN /\ stack' = SetTop([Top EXCEPT !.summary.result = Top.combined_summaries,
                                           !.summary.intermediate_steps =
                                               Append(@, Step("combined", 0, 0)),
                                           !.pc = "return"])
            /\ UNCHANGED <<comp, err>>
       ELSE IF Top.final_step = "summarize"
               /\ NeedsReduction(combined_token_cnt, self.token_limit)
       THEN /\ stack' = SetTop([Top EXCEPT !.pc = "recurse"])
            /\ UNCHANGED <<comp, err>>
       ELSE IF Top.final_step = "summarize"
       THEN /\ comp' = Call(Top.combined_summaries)
            /\ stack' = SetTop([Top EXCEPT !.pc = "final_await"])
            /\ err' = err
       ELSE /\ err' = "final_step_unrecognized"
            /\ stack' = <<>>
            /\ comp' = comp
  /\ UNCHANGED <<self, ctor, ret, log, requested, chunk_ret>>

\* line 209 with lines 164-179 of the callee: summarize(combined_summaries)
Recurse ==
  /\ stack # <<>>
  /\ Top.pc = "recurse"
  /\ Len(stack) <= MaxDepth
  /\ Len(Top.combined_summaries) <= MaxRecLen
  /\ LET c == _chunk(self, Top.combined_summaries) IN
       IF c.error # "none"
       THEN /\ err' = "range_zero_step"
            /\ stack' = <<>>
       ELSE /\ stack' = Append(SetTop([Top EXCEPT !.pc = "called"]),
                               Frame(Top.combined_summaries, "summarize", c.chunks))
            /\ err' = err
  /\ UNCHANGED <<self, ctor, comp, ret, log, requested, chunk_ret>>

Merge_dropped(f, reduced_summary) ==
  LET combined_token_cnt == _get_complete_token_count(self, f.combined_summaries)
      new_token_cnt == _get_complete_token_count(self, reduced_summary.result)
  IN [f EXCEPT !.summary.intermediate_steps =
                   Append(@, Step("reduced", combined_token_cnt, new_token_cnt)),
               !.summary.result = reduced_summary.result,
               !.pc = "return"]

\* lines 210-216: the caller takes over the recursive call's summary
Merge(f, reduced_summary) ==
  LET combined_token_cnt == _get_complete_token_count(self, f.combined_summaries)
      new_token_cnt == _get_complete_token_count(self, reduced_summary.result)
  IN [f EXCEPT !.summary.total_tokens = @ + reduced_summary.total_tokens,
               !.summary.cost = @ + reduced_summary.cost,
               !.summary.intermediate_steps =
                   Append(@, Step("reduced", combined_token_cnt, new_token_cnt)),
               !.summary.result = reduced_summary.result,
               !.pc = "return"]

\* line 231: return summary, to the caller of summarize or to line 209
Return ==
  /\ stack # <<>>
  /\ Top.pc = "return"
  /\ IF Len(stack) = 1
     THEN /\ ret' = [returned |-> TRUE, final_step |-> Top.final_step, summary |-> Top.summary]
          /\ stack' = <<>>
     ELSE /\ stack' = [SubSeq(stack, 1, Len(stack) - 1) EXCEPT
                          ![Len(stack) - 1] = Merge(stack[Len(stack) - 1], Top.summary)]
          /\ ret' = ret
  /\ UNCHANGED <<self, ctor, comp, err, log, requested, chunk_ret>>

Next ==
  \/ \E a \in Args : Construct(a)
  \/ \E t \in Texts, fs \in FinalSteps : Summarize(t, fs)
  \/ CallCompletion
  \/ CompletionFails
  \/ \E r \in Responses(self) : CompletionSucceeds(r)
  \/ FinalStep
  \/ Recurse
  \/ Return

Spec == Init /\ [][Next]_vars

NextChunk ==
  \/ \E a \in BigArgs : Construct(a)
  \/ \E t \in BigTexts : ChunkCall(t)

SpecChunk == Init /\ [][NextChunk]_vars

\* constructor arguments as in Args, with system messages short enough for
\* the combined summaries of non-empty outputs to fit one request
ReduceArgs ==
  {[model |-> mo, max_chunk_length |-> m, chunk_overlap |-> o, summary_length |-> sl,
    system_msg_cnt |-> _get_token_limit(mo) - d] :
      mo \in Models, m \in 0..MaxChunk, o \in (-1)..MaxChunk, sl \in 0..MaxSummary,
      d \in 8..(MaxChunk + 9)}

\* the answers of a client that returns between 1 and summary_length tokens
ReducingResponses(s) == {r \in Responses(s) : Len(_tokenize(r.content)) >= 1}

\* summarize(text, 'summarize') with a client that never raises
NextReduce ==
  \/ \E a \in ReduceArgs : Construct(a)
  \/ \E t \in Texts : Summarize(t, "summarize")
  \/ CallCompletion
  \/ \E r \in ReducingResponses(self) : CompletionSucceeds(r)
  \/ FinalStep
  \/ Recurse
  \/ Return

\* the call sequence is synchronous: a step that can be taken is taken
SpecReduce == Init /\ [][NextReduce]_vars /\ WF_vars(NextReduce)

(* ------------------------------ claims -------------------------------- *)

Constructed == ctor.status # "new"

\* the field checks of lines 109-125 all pass for the arguments given
FieldsAccepted ==
  /\ ctor.args.max_chunk_length > 0
  /\ ctor.args.chunk_overlap >= 0
  /\ ctor.args.chunk_overlap <= ctor.args.max_chunk_length
  /\ ctor.args.summary_length > 0

\* base_overhead + summary_length + max_chunk_length of the arguments given
BudgetSum ==
  ctor.args.system_msg_cnt + Len(_tokenize(USER_MSG(<<>>)))
    + ctor.args.summary_length + ctor.args.max_chunk_length

\* C1: a constructor call with chunk_overlap >= max_chunk_length is rejected,
\* so every constructed Chunker has stride max_chunk_length - chunk_overlap > 0
\* and the chunking loop is never run with a zero step.
C1_StridePositive ==
  /\ (Constructed /\ ctor.args.chunk_overlap >= ctor.args.max_chunk_length)
       => ctor.status = "rejected"
  /\ ctor.status = "ok" => self.max_chunk_length - self.chunk_overlap > 0
  /\ err # "range_zero_step"

\* C2: with the field checks passed, construction fails on the token budget
\* exactly when base_overhead + summary_length + max_chunk_length > token_limit,
\* the error carries that sum minus token_limit, and a sum <= token_limit
\* (equality included) is accepted.
C2_BudgetCheck ==
  Constructed =>
    LET token_limit == _get_token_limit(ctor.args.model) IN
    /\ FieldsAccepted =>
         IF BudgetSum > token_limit
         THEN /\ ctor.status = "rejected"
              /\ ctor.error = "token_limit"
              /\ ctor.exceeded_by = BudgetSum - token_limit
         ELSE ctor.status = "ok"
    /\ ctor.error = "token_limit" => FieldsAccepted /\ BudgetSum > token_limit

C2_Witness ==
  /\ ctor.status = "rejected"
  /\ ctor.error = "token_limit"
  /\ ctor.exceeded_by = 2

Windowed == chunk_ret.called /\ chunk_ret.path = "window"

CompleteCount(text) == self.system_msg_cnt + Len(_tokenize(USER_MSG(text))) + self.summary_length

\* C3: _chunk(t) is the one-element sequence <<t>> when complete_count(t) <
\* token_limit, and takes the windowing path when complete_count(t) >=
\* token_limit (equality included).
C3_FitThreshold ==
  chunk_ret.called =>
    IF CompleteCount(chunk_ret.text) < self.token_limit
    THEN chunk_ret.path = "single" /\ chunk_ret.chunks = <<chunk_ret.text>>
    ELSE chunk_ret.path = "window"

C3_Witness ==
  /\ chunk_ret.called
  /\ chunk_ret.text # <<>>
  /\ CompleteCount(chunk_ret.text) = self.token_limit - 1
  /\ chunk_ret.chunks = <<chunk_ret.text>>

\* the 25-token example: max_chunk_length 10, chunk_overlap 2
ExampleRun ==
  /\ Windowed
  /\ self.max_chunk_length = 10
  /\ self.chunk_overlap = 2
  /\ chunk_ret.ntokens = 25

\* every chunk is the decoded token window its range names
ChunksAreWindows ==
  /\ Len(chunk_ret.chunks) = Len(chunk_ret.ranges)
  /\ \A k \in 1..Len(chunk_ret.ranges) :
       chunk_ret.chunks[k] =
         _decode(SubSeq(_tokenize(chunk_ret.text), chunk_ret.ranges[k][1] + 1,
                        chunk_ret.ranges[k][2]))

\* C4 as stated: with max_chunk_length 10 and chunk_overlap 2, a text of 25
\* tokens is cut into exactly the three token windows [0,10), [8,18), [16,25)
\* and no further chunk.
C4_ExampleAsStated ==
  ExampleRun => chunk_ret.ranges = << <<0, 10>>, <<8, 18>>, <<16, 25>> >>

\* C4 amended: with max_chunk_length 10 and chunk_overlap 2, a text of 25
\* tokens is cut into exactly four token windows, [0,10), [8,18), [16,25) and
\* [24,25): the start 24 is still below 25, so a last one-token chunk follows.
C4_Example ==
  ExampleRun =>
    /\ chunk_ret.error = "none"
    /\ chunk_ret.ranges = << <<0, 10>>, <<8, 18>>, <<16, 25>>, <<24, 25>> >>
    /\ ChunksAreWindows

C4_Witness == ExampleRun /\ Len(chunk_ret.chunks) = 4

\* the chunks whose token window holds token index i
Covering(i) == {k \in 1..Len(chunk_ret.ranges) : chunk_ret.ranges[k][1] <= i /\ i < chunk_ret.ranges[k][2]}

\* i is one of the chunk_overlap tokens that open chunk k, k >= 2
OpensChunk(i, k) ==
  /\ chunk_ret.ranges[k][1] <= i
  /\ i < chunk_ret.ranges[k][1] + self.chunk_overlap

\* each token is in one chunk, or in two consecutive ones inside an overlap
CoveredOnceOrTwice ==
  \A i \in 0..(chunk_ret.ntokens - 1) :
    IF \E k \in 2..Len(chunk_ret.ranges) : OpensChunk(i, k)
    THEN \E k \in 2..Len(chunk_ret.ranges) : OpensChunk(i, k) /\ Covering(i) = {k - 1, k}
    ELSE Cardinality(Covering(i)) = 1

\* C5 as stated: on the windowing path every token index lies in exactly one
\* chunk, except inside an overlap window where it lies in exactly two
\* consecutive chunks; never in three.  (Stated for the runs that produce
\* chunks at all.)
C5_CoverageAsStated == (Windowed /\ chunk_ret.error = "none") => CoveredOnceOrTwice

\* C5 amended: the same coverage, for configurations with
\* 2 * chunk_overlap <= max_chunk_length.
C5_Coverage ==
  (Windowed /\ 2 * self.chunk_overlap <= self.max_chunk_length)
    => chunk_ret.error = "none" /\ CoveredOnceOrTwice

C5_Witness ==
  /\ Windowed
  /\ self.chunk_overlap >= 2
  /\ 2 * self.chunk_overlap <= self.max_chunk_length
  /\ Len(chunk_ret.ranges) >= 3
  /\ \E i \in 0..(chunk_ret.ntokens - 1) : Cardinality(Covering(i)) = 2

\* C6 as stated: the windowing path on a text of at most max_chunk_length
\* tokens yields exactly one chunk, whatever the chunk_overlap.  (Stated for
\* the runs that produce chunks at all.)
C6_OneChunkAsStated ==
  (Windowed /\ chunk_ret.error = "none" /\ chunk_ret.ntokens <= self.max_chunk_length)
    => Len(chunk_ret.chunks) = 1

\* C6 amended: the windowing path on a text of at most
\* max_chunk_length - chunk_overlap tokens yields exactly one chunk, the
\* whole text.
C6_OneChunk ==
  (Windowed /\ chunk_ret.ntokens <= self.max_chunk_length - self.chunk_overlap)
    => /\ chunk_ret.error = "none"
       /\ chunk_ret.ranges = << <<0, chunk_ret.ntokens>> >>
       /\ chunk_ret.chunks = <<chunk_ret.text>>

C6_Witness ==
  /\ Windowed
  /\ chunk_ret.ntokens <= self.max_chunk_length - self.chunk_overlap
  /\ Len(chunk_ret.chunks) = 1

\* C7: a _get_completion call that succeeds after k failures has made k + 1
\* attempts, k <= 3; one that raises has made exactly 4 attempts, all failed;
\* and after it has raised no further attempt is made.
C7_RetryBound ==
  /\ [](comp.outcome = "ok" =>
          /\ comp.fails <= 3
          /\ comp.attempts = comp.fails + 1)
  /\ [](comp.outcome = "raised" =>
          /\ comp.attempts = 4
          /\ comp.fails = 4
          /\ err = "unable_to_return_completion")
  /\ [][comp.outcome = "raised" => comp' = comp /\ log' = log]_vars

C7_Witness == comp.outcome = "ok" /\ comp.fails = 3 /\ comp.attempts = 4

\* C8: summarize with a final_step other than 'summarize' and 'combine'
\* raises its error before any completion request has been made.
C8_NoRequestBeforeInvalid ==
  err = "final_step_unrecognized" => ~requested /\ log = <<>>

RECURSIVE SumTokens(_)
SumTokens(entries) ==
  IF entries = <<>> THEN 0 ELSE entries[1].total_tokens + SumTokens(Tail(entries))

\* the contents of the completions, each followed by one line break
RECURSIVE JoinLines(_)
JoinLines(entries) ==
  IF entries = <<>> THEN <<>> ELSE entries[1].content \o <<"n">> \o JoinLines(Tail(entries))

\* C9: summarize(text, 'combine') over n chunks returns the n chunk outputs in
\* chunk order, each followed by one line break; exactly n completions
\* succeeded, one per chunk and none other, and total_tokens and cost are the
\* sums over those n.
C9_Combine ==
  (ret.returned /\ ret.final_step = "combine") =>
    LET sm == ret.summary
        chunks == _chunk(self, sm.original).chunks
        n == Len(chunks)
    IN /\ Len(log) = n
       /\ Len(sm.chunks) = n
       /\ \A k \in 1..n :
            /\ log[k].for = "chunk"
            /\ log[k].depth = 0
            /\ log[k].payload = chunks[k]
            /\ sm.chunks[k] = [input |-> chunks[k], output |-> log[k].content]
       /\ sm.result = JoinLines(log)
       /\ sm.total_tokens = SumTokens(log)
       /\ sm.cost = SumTokens(log) * self.price_per_token

\* two chunks, and the combined text returned does not fit one request
C9_Witness ==
  /\ ret.returned
  /\ ret.final_step = "combine"
  /\ Len(log) = 2
  /\ ret.summary.result # <<"n", "n">>
  /\ CompleteCount(ret.summary.result) >= self.token_limit

LastStep(f) == f.summary.intermediate_steps[Len(f.summary.intermediate_steps)]

StepsOfKind(f, kind) ==
  {k \in 1..Len(f.summary.intermediate_steps) : f.summary.intermediate_steps[k].kind = kind}

\* C10: with final_step 'summarize' the recursive call is made exactly when
\* complete_count(combined) >= token_limit; when combined fits there is no
\* recursive call and exactly one final completion, requested over combined,
\* whose content becomes the result.
C10_RecurseIffTooLong ==
  /\ \A k \in 1..Len(stack) :
       LET f == stack[k]
           cnt == CompleteCount(f.combined_summaries)
       IN /\ f.pc \in {"recurse", "called"} =>
               f.final_step = "summarize" /\ cnt >= self.token_limit
          /\ k < Len(stack) => f.pc = "called"
          /\ f.pc = "final_await" =>
               /\ f.final_step = "summarize"
               /\ cnt < self.token_limit
               /\ comp.text = f.combined_summaries
          /\ (f.pc = "return" /\ f.final_step = "summarize") =>
               IF cnt >= self.token_limit
               THEN LastStep(f).kind = "reduced" /\ StepsOfKind(f, "final") = {}
               ELSE /\ LastStep(f).kind = "final"
                    /\ Cardinality(StepsOfKind(f, "final")) = 1
                    /\ StepsOfKind(f, "reduced") = {}
                    /\ log[Len(log)].for = "final"
                    /\ log[Len(log)].payload = f.combined_summaries
                    /\ f.summary.result = log[Len(log)].content

\* a recursive call whose own combined summaries fit and got their completion
C10_Witness ==
  /\ Len(stack) = 2
  /\ stack[2].pc = "return"
  /\ LastStep(stack[2]).kind = "final"
  /\ CompleteCount(stack[2].combined_summaries) < self.token_limit

\* C11: once one completion has used up its retries, at whatever depth, the
\* outermost summarize ends with that error: no activation is left, nothing
\* is or will be returned, and no further completion request is made.
C11_ExhaustionIsFatal ==
  /\ [](comp.outcome = "raised" =>
          /\ err = "unable_to_return_completion"
          /\ stack = <<>>
          /\ ~ret.returned)
  /\ [][err = "unable_to_return_completion" =>
          /\ ret' = ret
          /\ log' = log
          /\ comp' = comp
          /\ stack' = stack]_vars

\* the retries ran out inside a recursive summarize
C11_Witness ==
  /\ err = "unable_to_return_completion"
  /\ comp.outcome = "raised"
  /\ log # <<>>
  /\ log[Len(log)].depth = 1
  /\ ~ret.returned

\* C13: on the windowing path with n tokens and stride s > 0 the chunks
\* are, in order, exactly the windows [k*s, min(k*s + max_chunk_length, n))
\* for the k >= 0 with k*s < n; so no chunk is empty, none holds more than
\* max_chunk_length tokens, and every token index lies in some chunk.
C13_Windows ==
  (Windowed /\ self.max_chunk_length - self.chunk_overlap > 0) =>
    LET n == chunk_ret.ntokens
        s == self.max_chunk_length - self.chunk_overlap
        K == {k \in 0..n : k * s < n}
    IN /\ chunk_ret.error = "none"
       /\ n = Len(_tokenize(chunk_ret.text))
       /\ Len(chunk_ret.ranges) = Cardinality(K)
       /\ \A k \in K :
            chunk_ret.ranges[k + 1] =
              <<k * s, IF k * s + self.max_chunk_length < n
                       THEN k * s + self.max_chunk_length ELSE n>>
       /\ ChunksAreWindows
       /\ \A j \in 1..Len(chunk_ret.ranges) :
            /\ chunk_ret.ranges[j][1] < chunk_ret.ranges[j][2]
            /\ chunk_ret.ranges[j][2] - chunk_ret.ranges[j][1] <= self.max_chunk_length
            /\ chunk_ret.chunks[j] # <<>>
            /\ Len(_tokenize(chunk_ret.chunks[j])) <= self.max_chunk_length
       /\ \A i \in 0..(n - 1) : Covering(i) # {}

\* several windows, the last one cut short by the end of the text
C13_Witness ==
  /\ Windowed
  /\ chunk_ret.error = "none"
  /\ Len(chunk_ret.ranges) >= 3
  /\ self.chunk_overlap >= 1
  /\ LET last == chunk_ret.ranges[Len(chunk_ret.ranges)]
     IN last[2] - last[1] < self.max_chunk_length

\* the successful chunk completions of the activation at the given depth
ChunkLog(depth) == SelectSeq(log, LAMBDA e : e.depth = depth /\ e.for = "chunk")

\* the activation at position k of the stack has done its chunks in order
InChunkOrder(k) ==
  LET f == stack[k]
      steps == f.summary.intermediate_steps
      done == ChunkLog(k - 1)
  IN /\ f.i <= Len(f.chunks)
     /\ f.pc \in {"recurse", "called", "final_await", "return"} => f.i = Len(f.chunks)
     /\ DOMAIN f.summary.chunks = 1..f.i
     /\ Len(done) = f.i
     /\ \A j \in 1..f.i :
          /\ f.summary.chunks[j] = [input |-> f.chunks[j], output |-> done[j].content]
          /\ done[j].payload = f.chunks[j]
          /\ steps[j] = Step("chunk", j, 0)
     /\ Len(steps) = f.i + (IF f.pc = "return" THEN 1 ELSE 0)
     /\ f.pc = "await" => k = Len(stack) /\ comp.active /\ comp.text = f.chunks[f.i + 1]

\* C14: within one summarize the chunk completions go one after the other in
\* chunk order: the request in flight is for chunk i+1 exactly when chunks
\* 1..i have their completions; on return the chunks mapping has the keys
\* 1..n, entry i holding chunk i and the output of its completion, and the
\* step log is the chunk entries 1..n followed by exactly one final entry.
C14_ChunkOrder ==
  /\ \A k \in 1..Len(stack) : InChunkOrder(k)
  /\ ret.returned =>
       LET sm == ret.summary
           chunks == _chunk(self, sm.original).chunks
           n == Len(chunks)
           done == ChunkLog(0)
       IN /\ DOMAIN sm.chunks = 1..n
          /\ Len(done) = n
          /\ \A j \in 1..n :
               /\ sm.chunks[j] = [input |-> chunks[j], output |-> done[j].content]
               /\ sm.intermediate_steps[j] = Step("chunk", j, 0)
          /\ Len(sm.intermediate_steps) = n + 1
          /\ sm.intermediate_steps[n + 1].kind \in {"final", "combined", "reduced"}

\* a summarize over two chunks with different outputs has returned
C14_Witness ==
  /\ ret.returned
  /\ DOMAIN ret.summary.chunks = 1..2
  /\ ret.summary.chunks[1].output # ret.summary.chunks[2].output
  /\ ret.summary.chunks[1].input # ret.summary.chunks[2].input

\* the successful completions made by the activations at this depth or deeper
LogFrom(depth) == SelectSeq(log, LAMBDA e : e.depth >= depth)

\* the largest depth at which a completion succeeded
DeepestDepth == CHOOSE d \in {log[j].depth : j \in 1..Len(log)} :
                  \A j \in 1..Len(log) : log[j].depth <= d

\* C15: the total_tokens of a returning summarize is the sum of the tokens
\* used by every successful completion of that invocation and of the
\* recursive calls below it, each once, failed attempts adding nothing; cost
\* follows at the model's price; with final_step "summarize" the result is
\* the output of the final completion of the deepest invocation.
C15_Totals ==
  /\ \A k \in 1..Len(stack) :
       stack[k].pc = "return" =>
         /\ stack[k].summary.total_tokens = SumTokens(LogFrom(k - 1))
         /\ stack[k].summary.cost = SumTokens(LogFrom(k - 1)) * self.price_per_token
  /\ ret.returned =>
       /\ ret.summary.total_tokens = SumTokens(log)
       /\ ret.summary.cost = SumTokens(log) * self.price_per_token
       /\ ret.final_step = "summarize" =>
            /\ log[Len(log)].for = "final"
            /\ log[Len(log)].depth = DeepestDepth
            /\ \A j \in 1..Len(log) - 1 : log[j].for = "final" => log[j].depth < DeepestDepth
            /\ ret.summary.result = log[Len(log)].content

\* a summarize that recursed has returned, and the last completion had failed
\* attempts before it succeeded
C15_Witness ==
  /\ ret.returned
  /\ ret.final_step = "summarize"
  /\ \E j \in 1..Len(log) : log[j].depth = 1 /\ log[j].for = "chunk"
  /\ log[Len(log)].depth = 1
  /\ ret.summary.result # <<>>
  /\ comp.fails > 0

\* base_overhead + token count of the payload + summary_length
PayloadBudget(payload) ==
  _get_base_token_count(self) + Len(_tokenize(payload)) + self.summary_length

C17_FreshBudget ==
  /\ [][(comp'.active /\ ~comp.active) =>
          /\ comp'.num_retries = DefaultRetries
          /\ comp'.attempts = 0
          /\ comp'.fails = 0]_vars
  /\ [](comp.active => comp.num_retries = DefaultRetries - comp.fails)
  /\ [](comp.attempts <= DefaultRetries + 1)

\* an earlier call used all its retries, and a later call, inside the
\* recursive pass, again succeeded on its fourth attempt
C17_Witness ==
  /\ comp.spent_before
  /\ comp.outcome = "ok"
  /\ comp.attempts = DefaultRetries + 1
  /\ log[Len(log)].depth = 1
  /\ Len(log) >= 3

\* summarize(text, 'summarize') has returned without a recursive call
ReturnedUnreduced ==
  /\ ret.returned
  /\ ret.final_step = "summarize"
  /\ ret.summary.intermediate_steps[Len(ret.summary.intermediate_steps)].kind # "reduced"

\* the text of the returned summarize was one chunk on the single path
FitsOneRequest == _chunk(self, ret.summary.original).path = "single"

\* C18 as stated: for a text that fits one request the second completion's
\* payload is the first completion's output.
C18_TwoStageAsStated ==
  (ReturnedUnreduced /\ FitsOneRequest) =>
    /\ Len(log) = 2
    /\ log[2].payload = log[1].content
    /\ ret.summary.result = log[2].content

\* C18: a summarize(text, 'summarize') that returns without recursing made
\* exactly n + 1 successful completions for n chunks, the n chunk completions
\* and then the final one, whose payload is the chunk outputs each followed by
\* one line break and whose output is the result; a text that fits one
\* request has n = 1, so it goes through two completions, the second over the
\* first one's output followed by a line break.
C18_TwoStage ==
  ReturnedUnreduced =>
    LET chunks == _chunk(self, ret.summary.original).chunks
        n == Len(chunks)
    IN /\ n >= 1
       /\ Len(log) = n + 1
       /\ \A j \in 1..n : log[j].for = "chunk" /\ log[j].payload = chunks[j]
       /\ log[n + 1].for = "final"
       /\ log[n + 1].payload = JoinLines(SubSeq(log, 1, n))
       /\ ret.summary.result = log[n + 1].content
       /\ FitsOneRequest =>
            /\ n = 1
            /\ log[1].payload = ret.summary.original
            /\ log[2].payload = log[1].content \o <<"n">>

\* a non-empty text that fits one request went through two completions
C18_Witness ==
  /\ ReturnedUnreduced
  /\ FitsOneRequest
  /\ ret.summary.original # <<>>
  /\ Len(log) = 2
  /\ log[2].payload = log[1].content \o <<"n">>
  /\ ret.summary.result # <<>>

\* C12: with a client that always succeeds and returns between 1 and
\* summary_length tokens, every recursive summarize invocation receives an
\* input with strictly fewer tokens than the input of the invocation that
\* called it (the reason given for summarize to return eventually).
C12_StrictReduction ==
  \A k \in 2..Len(stack) :
    Len(_tokenize(stack[k].text)) < Len(_tokenize(stack[k - 1].text))

====
